---- MODULE Spec2Model ----
(***************************************************************************)
(* Model of src/src/cv_model.py: main(), the 10-fold cross-validation      *)
(* driver.  One action per statement group of the loop body; the file      *)
(* system (manifest being read, JSON files) and the Training Backend are   *)
(* the environment.                                                        *)
(***************************************************************************)
EXTENDS Integers, Sequences, FiniteSets, TLC

(* ---------------- bounds of the model ---------------- *)
NumFnames == 2
MaxRows == 2
NumLabels == 2
MaxRuns == 2

Fnames == 1..NumFnames
Labels == 1..NumLabels

(* ---------------- program constants ---------------- *)
ClassesSwapped == <<"appearances", "adhesions", "pgs">>
\* line 10: for output_class in ("adhesions", "appearances", "pgs")
Classes == <<"adhesions", "appearances", "pgs">>
\* line 12: range(1, 11)
FoldStart == 1
FoldStop == 11

RECURSIVE RangeSeq(_, _)
RangeSeq(a, b) == IF a >= b THEN <<>> ELSE <<a>> \o RangeSeq(a + 1, b)

Folds == RangeSeq(FoldStart, FoldStop)

\* one output path {output_class}_split_{i}.json per (class index, fold)
Pairs == (1..Len(Classes)) \X {Folds[j] : j \in 1..Len(Folds)}

Range(s) == {s[j] : j \in 1..Len(s)}

(* ---------------- name binding and operand types ---------------- *)
BoundNamesWithPgsPath ==
    {"annotation_path", "output_class", "i", "dls", "learn", "df", "fns",
     "predictions", "jfile", "json", "pgs_path"}
\* names bound when line 29 runs: the assignments of main() and the imports;
\* pgs_path is assigned nowhere
BoundNames ==
    {"annotation_path", "output_class", "i", "dls", "learn", "df", "fns",
     "predictions", "jfile", "json"}

NameDefined(n) == n \in BoundNames

\* line 27: the left operand of "/" is the str literal "../data/imgs"
ImgRootKind == "str"
\* lines 24-25: the fname values read by pd.read_csv are str objects
FnameKind == "str"

\* a / b is defined when one operand is a pathlib.Path (__truediv__ or
\* __rtruediv__); str / str raises TypeError
TrueDivDefined(lk, rk) == lk = "Path" \/ rk = "Path"

(* ---------------- the file system ---------------- *)
Rows == [fname : Fnames, is_valid : BOOLEAN]

RowsNoFlag == [fname : Fnames, is_valid : {FALSE}]

RECURSIVE SeqsUpTo(_, _)
SeqsUpTo(S, n) ==
    IF n = 0 THEN {<<>>}
    ELSE LET T == SeqsUpTo(S, n - 1)
         IN  T \cup {Append(t, x) : t \in {u \in T : Len(u) = n - 1}, x \in S}

MissingManifest == [exists |-> FALSE, has_is_valid |-> FALSE, rows |-> <<>>]

\* a {class}_split_{fold}.csv as found on disk: absent, without the is_valid
\* column (its rows then carry no flag, written FALSE), or well-formed
Manifests ==
    {MissingManifest}
    \cup {[exists |-> TRUE, has_is_valid |-> TRUE, rows |-> r] :
            r \in SeqsUpTo(Rows, MaxRows)}
    \cup {[exists |-> TRUE, has_is_valid |-> FALSE, rows |-> r] :
            r \in SeqsUpTo(RowsNoFlag, MaxRows)}

\* what one rewrite of the file by the environment can leave: the file
\* removed, created empty, one row appended or the last row dropped; any
\* manifest is a sequence of such rewrites away from any other
EditsOf(m) ==
    {MissingManifest}
    \cup (IF ~m.exists
          THEN {[exists |-> TRUE, has_is_valid |-> b, rows |-> <<>>] : b \in BOOLEAN}
          ELSE {})
    \cup (IF m.exists /\ Len(m.rows) < MaxRows
          THEN {[m EXCEPT !.rows = Append(@, r)] :
                  r \in IF m.has_is_valid THEN Rows ELSE RowsNoFlag}
          ELSE {})
    \cup (IF m.exists /\ Len(m.rows) > 0
          THEN {[m EXCEPT !.rows = SubSeq(@, 1, Len(@) - 1)]}
          ELSE {})

ColumnUnchecked(m) == m.exists
\* lines 18 and 25: the file can be read and has the is_valid column that
\* valid_col="is_valid" and df.is_valid name
WellFormed(m) == m.exists /\ m.has_is_valid

IsValidRow(r) == r.is_valid

\* line 25: fns = [f for f in df[df.is_valid]["fname"]]
ValidFnames(m) ==
    LET v == SelectSeq(m.rows, IsValidRow)
    IN  [j \in 1..Len(v) |-> v[j].fname]

EmptyMap == [x \in {} |-> 0]

\* predictions[f] = label, as the dict comprehension of lines 26-28 builds it
Put(m, key, v) == [x \in DOMAIN m \cup {key} |-> IF x = key THEN v ELSE m[x]]

NoJson == [exists |-> FALSE, map |-> EmptyMap]

\* failures the environment can cause in the Training Backend
BackendOutcomes == {"ok", "ImageError", "TrainingError"}

VARIABLES
    pc,          \* position of main(): loop, from_csv, fit, read_csv, predict, write, done, failed
    ci,          \* index into Classes of output_class (0 before the first)
    fi,          \* index into Folds of i (0 before the first)
    csv,         \* the current pair's manifest as it is on disk now
    loaded,      \* the manifest as ImageDataLoaders.from_csv read it
    dls_valid,   \* filenames of the loader's validation partition
    df,          \* the manifest as pd.read_csv re-read it
    fns,         \* line 25
    k,           \* number of entries of fns already predicted
    predictions, \* lines 26-28
    files,       \* the JSON files of the output directory
    err,         \* the exception that ended the run ("none" while running)
    steps,       \* statements of the current iteration that have run
    started,     \* the (class, fold) pairs whose iteration has started
    run,         \* number of the invocation of the script
    prev_df      \* per pair, the manifest re-read in the previous invocation

vars == <<pc, ci, fi, csv, loaded, dls_valid, df, fns, k, predictions,
          files, err, steps, started, run, prev_df>>

Pair == <<ci, Folds[fi]>>

Init ==
    /\ pc = "loop"
    /\ ci = 0
    /\ fi = 0
    /\ csv = MissingManifest
    /\ loaded = MissingManifest
    /\ dls_valid = {}
    /\ df = MissingManifest
    /\ fns = <<>>
    /\ k = 0
    /\ predictions = EmptyMap
    /\ files = [p \in Pairs |-> NoJson]
    /\ err = "none"
    /\ steps = <<>>
    /\ started = <<>>
    /\ run = 1
    /\ prev_df = [p \in Pairs |-> <<>>]

FailContinue(e) ==
    /\ pc' = "loop"
    /\ err' = e
\* an exception is caught nowhere in main(): it ends the process
Fail(e) ==
    /\ pc' = "failed"
    /\ err' = e

Ran(s) == IF s \in Range(steps) THEN steps ELSE Append(steps, s)

\* lines 10-13 and 31: the two for statements take the next (class, fold)
\* or fall through to print("Done")
NextSplit ==
    /\ pc = "loop"
    /\ IF ci >= 1 /\ fi < Len(Folds)
       THEN ci' = ci /\ fi' = fi + 1
       ELSE IF ci < Len(Classes)
       THEN ci' = ci + 1 /\ fi' = 1
       ELSE ci' = ci /\ fi' = fi
    /\ IF (ci >= 1 /\ fi < Len(Folds)) \/ ci < Len(Classes)
       THEN /\ pc' = "from_csv"
            /\ \E m \in Manifests : csv' = m
            /\ started' = Append(started, <<Classes[ci'], Folds[fi']>>)
            /\ steps' = <<>>
       ELSE /\ pc' = "done"
            /\ UNCHANGED <<csv, started, steps>>
    /\ UNCHANGED <<loaded, dls_valid, df, fns, k, predictions, files,
                   err, run, prev_df>>

\* lines 14-21: ImageDataLoaders.from_csv(..., valid_col="is_valid", ...)
FromCsv ==
    /\ pc = "from_csv"
    /\ steps' = Ran("from_csv")
    /\ IF ~WellFormed(csv)
       THEN /\ Fail("ManifestError")
            /\ UNCHANGED <<loaded, dls_valid>>
       ELSE \E r \in BackendOutcomes :
              IF r = "ok"
              THEN /\ loaded' = csv
                   /\ dls_valid' = Range(ValidFnames(csv))
                   /\ pc' = "fit"
                   /\ UNCHANGED err
              ELSE /\ Fail(r)
                   /\ UNCHANGED <<loaded, dls_valid>>
    /\ UNCHANGED <<ci, fi, csv, df, fns, k, predictions, files,
                   started, run, prev_df>>

FitThenPredict ==
    /\ pc = "fit"
    /\ steps' = Ran("fit")
    /\ \E r \in BackendOutcomes :
         IF r = "ok"
         THEN pc' = "predict" /\ UNCHANGED err
         ELSE Fail(r)
    /\ UNCHANGED <<ci, fi, csv, loaded, dls_valid, df, fns, k,
                   predictions, files, started, run, prev_df>>
\* lines 22-23: cnn_learner(dls, resnet50, ...) and learn.fine_tune(35, 2e-3)
Fit ==
    /\ pc = "fit"
    /\ steps' = Ran("fit")
    /\ \E r \in BackendOutcomes :
         IF r = "ok"
         THEN pc' = "read_csv" /\ UNCHANGED err
         ELSE Fail(r)
    /\ UNCHANGED <<ci, fi, csv, loaded, dls_valid, df, fns, k,
                   predictions, files, started, run, prev_df>>

FnsFromLoader == ValidFnames(loaded)
\* lines 24-25: the list of held-out filenames is taken from the manifest
\* as pd.read_csv finds it now
FnsFromReread == ValidFnames(csv)

\* lines 24-25: df = pd.read_csv(...); fns = [f for f in df[df.is_valid]["fname"]]
ReadCsv ==
    /\ pc = "read_csv"
    /\ steps' = Ran("read_csv")
    /\ IF ~WellFormed(csv)
       THEN /\ Fail("ManifestError")
            /\ UNCHANGED <<df, fns, k, predictions>>
       ELSE /\ df' = csv
            /\ fns' = FnsFromReread
            /\ k' = 0
            /\ predictions' = EmptyMap
            /\ pc' = "predict"
            /\ UNCHANGED err
    /\ UNCHANGED <<ci, fi, csv, loaded, dls_valid, files, started,
                   run, prev_df>>

\* lines 26-28: one turn of the dict comprehension
\*   {f: str(learn.predict("../data/imgs" / f)[0]) for f in fns}
Predict ==
    /\ pc = "predict"
    /\ steps' = Ran("predict")
    /\ IF k = Len(fns)
       THEN /\ pc' = "write"
            /\ UNCHANGED <<k, predictions, err>>
       ELSE IF ~TrueDivDefined(ImgRootKind, FnameKind)
       THEN /\ Fail("TypeError")
            /\ UNCHANGED <<k, predictions>>
       ELSE \E r \in BackendOutcomes :
              IF r = "ok"
              THEN \E l \in Labels :
                     /\ predictions' = Put(predictions, fns[k + 1], l)
                     /\ k' = k + 1
                     /\ UNCHANGED <<pc, err>>
              ELSE /\ Fail(r)
                   /\ UNCHANGED <<k, predictions>>
    /\ UNCHANGED <<ci, fi, csv, loaded, dls_valid, df, fns, files,
                   started, run, prev_df>>

\* lines 29-30: with open(pgs_path / f"../output/...json", "w") as jfile:
\*                  json.dump(predictions, jfile)
Write ==
    /\ pc = "write"
    /\ steps' = Ran("write")
    /\ IF ~NameDefined("pgs_path")
       THEN /\ Fail("NameError")
            /\ UNCHANGED files
       ELSE \E writable \in BOOLEAN :
              IF writable
              THEN /\ files' = [files EXCEPT ![Pair] =
                                  [exists |-> TRUE, map |-> predictions]]
                   /\ pc' = "loop"
                   /\ UNCHANGED err
              ELSE /\ Fail("IOError")
                   /\ UNCHANGED files
    /\ UNCHANGED <<ci, fi, csv, loaded, dls_valid, df, fns, k,
                   predictions, started, run, prev_df>>

\* the current iteration has passed lines 24-25
RereadDone == pc \in {"predict", "write"} \/ "predict" \in Range(steps)

\* the environment rewrites the current pair's manifest between the read of
\* line 14 and the read of line 24, the only two times main() looks at it
EnvChangeManifest ==
    /\ pc \in {"fit", "read_csv"}
    /\ \E m \in EditsOf(csv) : m # csv /\ csv' = m
    /\ UNCHANGED <<pc, ci, fi, loaded, dls_valid, df, fns, k, predictions,
                   files, err, steps, started, run, prev_df>>

\* lines 33-34: the operator invokes the script again; the output directory
\* keeps its files
Rerun ==
    /\ pc \in {"failed", "done"}
    /\ run < MaxRuns
    /\ run' = run + 1
    /\ prev_df' = [p \in Pairs |->
                     IF RereadDone /\ p = Pair THEN <<df>> ELSE prev_df[p]]
    /\ pc' = "loop"
    /\ ci' = 0
    /\ fi' = 0
    /\ csv' = MissingManifest
    /\ loaded' = MissingManifest
    /\ dls_valid' = {}
    /\ df' = MissingManifest
    /\ fns' = <<>>
    /\ k' = 0
    /\ predictions' = EmptyMap
    /\ err' = "none"
    /\ steps' = <<>>
    /\ started' = <<>>
    /\ UNCHANGED files

Next ==
    \/ NextSplit
    \/ FromCsv
    \/ Fit
    \/ ReadCsv
    \/ Predict
    \/ Write
    \/ EnvChangeManifest

Spec == Init /\ [][Next]_vars

NextRerun == Next \/ Rerun

SpecRerun == Init /\ [][NextRerun]_vars

(* ======================= claims ======================= *)

StepOrder == <<"from_csv", "fit", "read_csv", "predict", "write">>

IsPrefix(s, t) == Len(s) <= Len(t) /\ \A j \in 1..Len(s) : s[j] = t[j]

\* the failures the environment can cause: manifest, image, training, output
EnvErrors == {"ManifestError", "ImageError", "TrainingError", "IOError"}

\* the write statement of the current iteration has been executed
WriteExecuted == "write" \in Range(steps)

\* C2: the (class, fold) pairs are started in the order adhesions 1..10,
\* appearances 1..10, pgs 1..10, none skipped and none started twice: the
\* pairs started so far are always an initial part of that list.
C2_ExpectedOrder ==
    [n \in 1..30 |->
       <<(<<"adhesions", "appearances", "pgs">>)[((n - 1) \div 10) + 1],
         ((n - 1) % 10) + 1>>]

C2_FixedOrder == IsPrefix(started, C2_ExpectedOrder)

C2_Witness == started = <<(<<"adhesions", 1>>)>> /\ pc = "fit"

\* C3 (as claimed): a run is ended by an exception only when a manifest, an
\* image, the Training Backend or the output directory failed, and when
\* "Done" is reached each of the 30 pairs has its JSON file.
C3_AsClaimed ==
    /\ pc = "failed" => err \in EnvErrors
    /\ pc = "done" => \A p \in Pairs : files[p].exists

\* C4 (as claimed): once the write statement of a pair whose re-read manifest
\* has no is_valid row has been executed with the output directory writable,
\* the pair's file is the empty object and the run has not failed.
C4_AsClaimed ==
    (WriteExecuted /\ ValidFnames(df) = <<>> /\ err # "IOError")
        => /\ files[Pair] = [exists |-> TRUE, map |-> EmptyMap]
           /\ pc # "failed"

\* C5: a statement that reads a manifest without the is_valid column (the
\* loader construction of lines 14-21 or the filter of lines 24-25) ends the
\* run there with a manifest error and leaves the JSON files as they are;
\* the write statement is reached only with a manifest that had the column
\* at both reads.
C5_Step ==
    (pc \in {"from_csv", "read_csv"} /\ pc' # pc /\ csv.exists /\ ~csv.has_is_valid)
        => (pc' = "failed" /\ err' = "ManifestError" /\ files' = files)

C5_MissingColumnAborts ==
    /\ [][C5_Step]_vars
    /\ [](pc = "write" \/ WriteExecuted => loaded.has_is_valid /\ df.has_is_valid)

C5_Witness ==
    /\ pc = "failed" /\ err = "ManifestError"
    /\ csv.exists /\ ~csv.has_is_valid
    /\ \A p \in Pairs : ~files[p].exists

\* C6: after an exception nothing more happens: the run stays failed, no
\* later pair is started, no statement runs, "Done" is not reached and the
\* JSON files keep their contents.
C6_Step ==
    err # "none" =>
        /\ pc = "failed" /\ pc' = "failed"
        /\ UNCHANGED <<ci, fi, started, steps, files, err, predictions>>

C6_FailureEndsRun == [][C6_Step]_vars /\ [](err # "none" => pc = "failed")

C6_Witness == pc = "failed" /\ err = "TrainingError" /\ steps = <<"from_csv", "fit">>

\* C7 (as claimed): in a second invocation, once the write statement of a
\* pair has been executed and the pair's manifest was re-read as in the
\* first invocation, the pair's JSON file exists and its keys are the
\* held-out filenames of the first invocation.
C7_AsClaimed ==
    (run > 1 /\ WriteExecuted /\ prev_df[Pair] = <<df>> /\ err # "IOError")
        => /\ files[Pair].exists
           /\ DOMAIN files[Pair].map = Range(ValidFnames(prev_df[Pair][1]))

\* C8: the write statement always ends the run with a NameError (pgs_path
\* is not bound), no JSON file ever exists, and only the first pair,
\* adhesions fold 1, gets as far as the write statement.
C8_WriteFails ==
    /\ \A p \in Pairs : ~files[p].exists
    /\ WriteExecuted => pc = "failed" /\ err = "NameError"
    /\ err = "NameError" => WriteExecuted
    /\ pc = "write" \/ WriteExecuted => started = <<(<<"adhesions", 1>>)>>

C8_Witness == pc = "failed" /\ err = "NameError" /\ WriteExecuted

\* C9: within a pair the statements run in the order build loader, fit,
\* re-read manifest, predict, write; the write statement is reached only
\* with a prediction for every held-out filename; a pair's loader is built
\* only when no statement of another pair is under way.
C9_Sequential ==
    /\ IsPrefix(steps, StepOrder)
    /\ pc = "from_csv" => steps = <<>>
    /\ pc = "fit" => steps = SubSeq(StepOrder, 1, 1)
    /\ pc = "read_csv" => steps = SubSeq(StepOrder, 1, 2)
    /\ pc = "predict" => steps \in {SubSeq(StepOrder, 1, 3), SubSeq(StepOrder, 1, 4)}
    /\ pc = "write" => /\ steps = SubSeq(StepOrder, 1, 4)
                       /\ k = Len(fns)
                       /\ DOMAIN predictions = Range(fns)
    /\ pc = "loop" => steps \in {<<>>, StepOrder}
    /\ pc \notin {"loop", "done"} =>
          /\ Len(started) >= 1
          /\ started[Len(started)] = <<Classes[ci], Folds[fi]>>

C9_Witness ==
    /\ pc = "write" /\ steps = SubSeq(StepOrder, 1, 4)
    /\ fns = <<>> /\ predictions = EmptyMap

====
